---- MODULE Spec2Model ----
(***************************************************************************)
(* Escalation Helper (krwhynot/escalation-helper): the retrieval pipeline  *)
(* and the follow-up question state machine of src/app.py.                 *)
(*                                                                         *)
(* Conventions.  A Python value that may be None is an option: None is the *)
(* empty tuple and Some(x) the one-element tuple <<x>>.  A cosine distance *)
(* is an integer number of hundredths (0.30 is 30); a similarity           *)
(* percentage is an integer number of tenths of a percent (88.0 is 880).   *)
(* Text is a TLA+ string; Len, SubSeq and \o act on it character-wise.     *)
(***************************************************************************)
EXTENDS Integers, Sequences, FiniteSets, TLC

VARIABLES
    authenticated,     \* st.session_state.authenticated
    messages,          \* len(st.session_state.messages), counted up to MaxMessages
    followup_active,   \* st.session_state.followup_active
    original_query,    \* st.session_state.original_query
    followup_count,    \* st.session_state.followup_count
    enriched_context,  \* st.session_state.enriched_context
    pending_followup,  \* st.session_state.pending_followup (an option)
    cached_matches,    \* st.session_state.cached_matches
    out,               \* what the last script run did (see NoOut)
    hist,              \* history of the current follow-up session (see NoHist)
    call,              \* one call of a function of src/app.py (see NoCall)
    other              \* the st.session_state of a second browser session

vars == <<authenticated, messages, followup_active, original_query,
          followup_count, enriched_context, pending_followup,
          cached_matches, out, hist, call, other>>

session == <<followup_active, original_query, followup_count,
             enriched_context, pending_followup, cached_matches>>

----------------------------------------------------------------------------
(* Options and small helpers *)

None == <<>>

Some(x) == <<x>>

Val(o) == o[1]

Min(a, b) == IF a <= b THEN a ELSE b

----------------------------------------------------------------------------
(* Bounds of the model *)

\* most documents the index returns to one query
MaxDocs == 2

\* options offered to the model's user: the first MaxOption options of a
\* question and its last one
MaxOption == 2

\* most retrieval failures within one follow-up session
MaxFail == 2

\* the chat history is counted up to this many messages
MaxMessages == 1

----------------------------------------------------------------------------
(* Configuration: src/app.py and src/config.py *)

FOLLOWUP_THRESHOLD == 30

MAX_FOLLOWUPS == 4

DISTANCE_THRESHOLD == 40

RETRIEVE_K == 20

RETURN_K == 3

APP_PASSWORD == "escalation2024"

CategoryOrder == <<"printer", "payment", "employee", "order", "menu", "cash">>

CATEGORY_KEYWORDS ==
    [printer  |-> <<"print", "printer", "receipt", "kitchen print", "ticket", "label", "paper">>,
     payment  |-> <<"payment", "card", "credit", "debit", "charge", "batch", "tip", "refund", "terminal">>,
     employee |-> <<"employee", "clock", "pin", "schedule", "staff", "server", "cashier", "manager", "driver">>,
     order    |-> <<"order", "void", "comp", "total", "tax", "check", "ticket", "close", "reopen">>,
     menu     |-> <<"menu", "item", "price", "modifier", "topping", "size", "coupon", "product", "category">>,
     cash     |-> <<"cash", "drawer", "drop", "safe", "over", "short", "reconcile", "till", "deposit">>]

FOLLOWUP_QUESTIONS ==
    [printer |->
       [question |-> "What's happening with the printer?",
        options  |-> <<"Not printing at all",
                       "Printing to wrong printer/station",
                       "Double printing",
                       "Partial or garbled output",
                       "Slow or delayed">>,
        query_enrichment |->
           ("Not printing at all" :> "printer not printing no output offline") @@
           ("Printing to wrong printer/station" :> "printer routing wrong station destination") @@
           ("Double printing" :> "printer duplicate double print twice") @@
           ("Partial or garbled output" :> "printer partial garbled cut off corrupt") @@
           ("Slow or delayed" :> "printer slow delay queue backed up")],
     payment |->
       [question |-> "What's the payment issue?",
        options  |-> <<"Card declined but customer charged",
                       "Card charged twice",
                       "Payment not recording on order",
                       "Batch won't settle",
                       "Wrong amount charged">>,
        query_enrichment |->
           ("Card declined but customer charged" :> "credit card declined charged anyway ghost") @@
           ("Card charged twice" :> "double charge duplicate payment transaction") @@
           ("Payment not recording on order" :> "payment missing order unpaid not applied") @@
           ("Batch won't settle" :> "credit card batch settle close end day") @@
           ("Wrong amount charged" :> "payment amount wrong incorrect total tip")],
     employee |->
       [question |-> "What's happening with the employee?",
        options  |-> <<"Can't clock in (says already clocked in)",
                       "PIN not working",
                       "Missing from POS/schedule",
                       "Hours showing wrong",
                       "Can't perform an action (void, comp, etc.)">>,
        query_enrichment |->
           ("Can't clock in (says already clocked in)" :> "employee clock in already stuck timeclock") @@
           ("PIN not working" :> "employee PIN login password access denied") @@
           ("Missing from POS/schedule" :> "employee not showing missing POS schedule") @@
           ("Hours showing wrong" :> "time clock hours incorrect wrong punch") @@
           ("Can't perform an action (void, comp, etc.)" :> "employee permission denied can't void comp security")],
     order |->
       [question |-> "What's wrong with the order?",
        options  |-> <<"Order won't close/complete",
                       "Can't void or comp items",
                       "Wrong total or tax",
                       "Missing items",
                       "Order stuck or disappeared">>,
        query_enrichment |->
           ("Order won't close/complete" :> "order stuck won't close complete finalize") @@
           ("Can't void or comp items" :> "void comp order item permission manager") @@
           ("Wrong total or tax" :> "order total tax wrong incorrect calculation") @@
           ("Missing items" :> "order items missing disappeared deleted") @@
           ("Order stuck or disappeared" :> "order missing stuck lost can't find search")],
     menu |->
       [question |-> "What's the menu issue?",
        options  |-> <<"Item not showing on POS",
                       "Wrong price displaying",
                       "Modifier options missing",
                       "Item in wrong category",
                       "New item not syncing">>,
        query_enrichment |->
           ("Item not showing on POS" :> "menu item not showing missing button hidden") @@
           ("Wrong price displaying" :> "menu price wrong incorrect amount") @@
           ("Modifier options missing" :> "modifier topping option missing unavailable") @@
           ("Item in wrong category" :> "menu item group category wrong location") @@
           ("New item not syncing" :> "menu sync new item not appearing update")],
     cash |->
       [question |-> "What's the cash drawer issue?",
        options  |-> <<"Drawer over or short",
                       "Can't reconcile/close drawer",
                       "Wrong employee assigned",
                       "Drop not recorded",
                       "Multiple employees on same drawer">>,
        query_enrichment |->
           ("Drawer over or short" :> "cash drawer over short variance count") @@
           ("Can't reconcile/close drawer" :> "cash drawer close reconcile stuck end day") @@
           ("Wrong employee assigned" :> "cash drawer employee assignment wrong") @@
           ("Drop not recorded" :> "cash drop safe missing not recorded") @@
           ("Multiple employees on same drawer" :> "cash drawer shared multiple employees assignment")],
     default |->
       [question |-> "What category best describes your issue?",
        options  |-> <<"Orders & checkout",
                       "Payments & credit cards",
                       "Printing & receipts",
                       "Employees & time clock",
                       "Menu & items",
                       "Cash drawers",
                       "Delivery",
                       "Something else">>,
        query_enrichment |->
           ("Orders & checkout" :> "order") @@
           ("Payments & credit cards" :> "payment credit card") @@
           ("Printing & receipts" :> "printer receipt") @@
           ("Employees & time clock" :> "employee time clock") @@
           ("Menu & items" :> "menu item") @@
           ("Cash drawers" :> "cash drawer") @@
           ("Delivery" :> "delivery driver dispatch") @@
           ("Something else" :> "")]]

----------------------------------------------------------------------------
(* Text: str.lower() and the substring test `keyword in query` *)

UpperToLower ==
    ("A" :> "a") @@ ("B" :> "b") @@ ("C" :> "c") @@ ("D" :> "d") @@
    ("E" :> "e") @@ ("F" :> "f") @@ ("G" :> "g") @@ ("H" :> "h") @@
    ("I" :> "i") @@ ("J" :> "j") @@ ("K" :> "k") @@ ("L" :> "l") @@
    ("M" :> "m") @@ ("N" :> "n") @@ ("O" :> "o") @@ ("P" :> "p") @@
    ("Q" :> "q") @@ ("R" :> "r") @@ ("S" :> "s") @@ ("T" :> "t") @@
    ("U" :> "u") @@ ("V" :> "v") @@ ("W" :> "w") @@ ("X" :> "x") @@
    ("Y" :> "y") @@ ("Z" :> "z")

LowerChar(c) == IF c \in DOMAIN UpperToLower THEN UpperToLower[c] ELSE c

\* the characters lo..hi of s in lower case
RECURSIVE LowerRange(_, _, _)
LowerRange(s, lo, hi) ==
    IF lo > hi THEN ""
    ELSE IF lo = hi THEN LowerChar(SubSeq(s, lo, lo))
    ELSE LET mid == (lo + hi) \div 2
         IN  LowerRange(s, lo, mid) \o LowerRange(s, mid + 1, hi)

\* str.lower()
Lower(s) == LowerRange(s, 1, Len(s))

\* the substrings of s that are m characters long
Substrings(s, m) == {SubSeq(s, i, i + m - 1) : i \in 1..(Len(s) - m + 1)}

\* `k in s` for Python strings: k occurs in s as a substring
Contains(s, k) == k \in Substrings(s, Len(k))

----------------------------------------------------------------------------
(* Follow-up question functions: src/app.py 658-742 *)

Keywords(category) ==
    {CATEGORY_KEYWORDS[category][i] : i \in DOMAIN CATEGORY_KEYWORDS[category]}

AllKeywords == UNION {Keywords(category) : category \in DOMAIN CATEGORY_KEYWORDS}

KeywordLengths == {Len(keyword) : keyword \in AllKeywords}

\* the keywords of m characters that occur in query_lower
KeywordsFound(query_lower, m) ==
    LET substrings == Substrings(query_lower, m)
    IN  {keyword \in AllKeywords : Len(keyword) = m /\ keyword \in substrings}

\* the detection with a tie going to the category defined last
DetectLastOnTie(query) ==
    LET query_lower == Lower(query)
        score == [i \in DOMAIN CategoryOrder |->
                     Cardinality({k \in DOMAIN CATEGORY_KEYWORDS[CategoryOrder[i]] :
                                     Contains(query_lower,
                                              CATEGORY_KEYWORDS[CategoryOrder[i]][k])})]
        scored == {i \in DOMAIN CategoryOrder : score[i] > 0}
    IN  IF scored = {} THEN "default"
        ELSE CategoryOrder[CHOOSE i \in scored :
                 \A j \in scored : score[j] < score[i]
                                   \/ (score[j] = score[i] /\ j <= i)]

\* category_scores, in the iteration order of CATEGORY_KEYWORDS.  The test
\* `keyword in query_lower` is made for all keywords of one length at once.
detect_category(query) ==
    LET query_lower == Lower(query)
        found == UNION {KeywordsFound(query_lower, m) : m \in KeywordLengths}
        score == [i \in DOMAIN CategoryOrder |->
                     Cardinality({k \in DOMAIN CATEGORY_KEYWORDS[CategoryOrder[i]] :
                                     CATEGORY_KEYWORDS[CategoryOrder[i]][k] \in found})]
        scored == {i \in DOMAIN CategoryOrder : score[i] > 0}
    IN  IF scored = {} THEN "default"
        ELSE \* max(category_scores, key=category_scores.get): the first
             \* category with the highest score
             CategoryOrder[CHOOSE i \in scored :
                 \A j \in scored : score[j] < score[i]
                                   \/ (score[j] = score[i] /\ i <= j)]

----------------------------------------------------------------------------
(* The retrieval pipeline: src/app.py 493-577.                              *)
(* The vector index and the cross-encoder are collaborators: what they      *)
(* return is chosen by the environment.  An index result is the sequence of *)
(* the distances of the documents it returns (an option each), in the       *)
(* index's order; a document is named by its position in that sequence.     *)

\* the pre-filter bound without the relaxation of 0.10
StrictPreRerankThreshold(distance_threshold) == distance_threshold

pre_rerank_threshold(distance_threshold) == Min(distance_threshold + 10, 60)

Candidate(i, distance) ==
    [content |-> i,
     distance |-> distance,
     similarity_pct |->
        IF distance # None /\ Val(distance) # 0
        THEN Some((100 - Val(distance)) * 10) ELSE None,
     cross_encoder_score |-> None]

SelectSeq2(s, Keep(_)) ==
    LET F[i \in 0..Len(s)] ==
            IF i = 0 THEN <<>>
            ELSE IF Keep(s[i]) THEN Append(F[i - 1], s[i]) ELSE F[i - 1]
    IN  F[Len(s)]

PreFilter(results, distance_threshold) ==
    LET all == [i \in DOMAIN results |-> Candidate(i, results[i])]
        Keep(c) == ~(c.distance # None
                     /\ Val(c.distance) > pre_rerank_threshold(distance_threshold))
    IN  SelectSeq2(all, Keep)

\* a descending sort that puts the later of two equal scores first
SortByScoreTiesReversed(candidates) ==
    LET key(i) == IF candidates[i].cross_encoder_score = None THEN 0
                  ELSE Val(candidates[i].cross_encoder_score)
        rank(i) == 1 + Cardinality({j \in DOMAIN candidates :
                           key(j) > key(i) \/ (key(j) = key(i) /\ j > i)})
    IN  [k \in DOMAIN candidates |->
            candidates[CHOOSE i \in DOMAIN candidates : rank(i) = k]]

\* sorted(candidates, key=score, reverse=True): a stable sort
SortByScore(candidates) ==
    LET key(i) == IF candidates[i].cross_encoder_score = None THEN 0
                  ELSE Val(candidates[i].cross_encoder_score)
        rank(i) == 1 + Cardinality({j \in DOMAIN candidates :
                           key(j) > key(i) \/ (key(j) = key(i) /\ j < i)})
    IN  [k \in DOMAIN candidates |->
            candidates[CHOOSE i \in DOMAIN candidates : rank(i) = k]]

\* predict called whenever a cross-encoder is loaded, however few candidates
RerankerInvokedWhenLoaded(candidates, rr) ==
    rr.kind \notin {"disabled", "unavailable"}

\* line 547: cross_encoder.predict is called
RerankerInvoked(candidates, rr) ==
    rr.kind \notin {"disabled", "unavailable"} /\ Len(candidates) > 1

\* a stage 2 that hands the candidates back in reverse
RerankReversed(candidates, rr) ==
    [i \in DOMAIN candidates |-> candidates[Len(candidates) + 1 - i]]

\* rr is the cross-encoder of this call: kind "disabled" (use_reranking is
\* False), "unavailable" (no model), "raises" (predict raises) or "scores"
\* (predict returns rr.scores)
Rerank(candidates, rr) ==
    IF ~RerankerInvoked(candidates, rr) THEN candidates
    ELSE IF rr.kind = "raises" THEN candidates
    ELSE LET n == Min(Len(rr.scores), Len(candidates))
             scored == [i \in DOMAIN candidates |->
                           IF i <= n
                           THEN [candidates[i] EXCEPT
                                    !.cross_encoder_score = Some(rr.scores[i])]
                           ELSE candidates[i]]
         IN  IF Len(rr.scores) < Len(candidates) THEN scored
             ELSE SortByScore(scored)

\* the final stage limiting the results without the distance test
PostFilterWithoutThreshold(candidates, return_k, distance_threshold) ==
    SubSeq(candidates, 1, Min(return_k, Len(candidates)))

\* the final stage testing the distances before it limits the results
PostFilterThenLimit(candidates, return_k, distance_threshold) ==
    LET Keep(c) == \/ (c.distance # None /\ Val(c.distance) <= distance_threshold)
                   \/ c.distance = None
        kept == SelectSeq2(candidates, Keep)
    IN  SubSeq(kept, 1, Min(return_k, Len(kept)))

PostFilter(candidates, return_k, distance_threshold) ==
    LET Keep(c) == \/ (c.distance # None /\ Val(c.distance) <= distance_threshold)
                   \/ c.distance = None
    IN  SelectSeq2(SubSeq(candidates, 1, Min(return_k, Len(candidates))), Keep)

Search(results, rr, return_k, distance_threshold) ==
    IF results = <<>> THEN <<>>
    ELSE LET candidates == PreFilter(results, distance_threshold)
         IN  IF candidates = <<>> THEN <<>>
             ELSE PostFilter(Rerank(candidates, rr), return_k, distance_threshold)

\* the search with both distance filters wide open
SearchWithoutThreshold(results, rr) ==
    Search(results, rr, RETURN_K, 100)

search_knowledge_base(results, rr) ==
    Search(results, rr, RETURN_K, DISTANCE_THRESHOLD)

\* a call that answers a failed index query with an empty result
SearchCallSwallowsFailure(index, rr) ==
    [raised |-> FALSE, index_calls |-> 1, predict_calls |-> 0,
     pairs |-> <<>>, reranked |-> <<>>,
     matches |-> IF index.ok THEN search_knowledge_base(index.distances, rr)
                 ELSE <<>>]

\* One call of search_knowledge_base as its caller and its collaborators see
\* it.  index is the answer of collection.query: it raises (ok is FALSE) or
\* returns the distances of its documents.  The record tells whether the call
\* raised, how often the index and the cross-encoder were called, the
\* candidates handed to the cross-encoder (pairs), the candidates after
\* stage 2 (reranked) and the matches returned.
SearchCall(index, rr) ==
    IF ~index.ok
    THEN [raised |-> TRUE, index_calls |-> 1, predict_calls |-> 0,
          pairs |-> <<>>, reranked |-> <<>>, matches |-> <<>>]
    ELSE LET results == index.distances
             candidates == IF results = <<>> THEN <<>>
                           ELSE PreFilter(results, DISTANCE_THRESHOLD)
             invoked == RerankerInvoked(candidates, rr)
         IN  [raised |-> FALSE,
              index_calls |-> 1,
              predict_calls |-> IF invoked THEN 1 ELSE 0,
              pairs |-> IF invoked THEN candidates ELSE <<>>,
              reranked |-> Rerank(candidates, rr),
              matches |-> search_knowledge_base(results, rr)]

----------------------------------------------------------------------------
(* Relevance classification: src/app.py 628-652 *)

Digits == <<"0", "1", "2", "3", "4", "5", "6", "7", "8", "9">>

\* str(n) for a natural number n
RECURSIVE NatText(_)
NatText(n) ==
    IF n < 10 THEN Digits[n + 1]
    ELSE NatText(n \div 10) \o Digits[(n % 10) + 1]

\* f"{similarity_pct}" for a percentage held in tenths: one decimal place
PercentText(tenths) ==
    NatText(tenths \div 10) \o "." \o Digits[(tenths % 10) + 1]

\* round((1 - distance) * 100, 1), in tenths of a percent
RoundedSimilarity(d) == (100 - d) * 10

\* the classification with the three bounds compared by <= in place of <
ClassifyInclusive(distance) ==
    IF distance = None
    THEN [css_class |-> "medium", label |-> "Medium", similarity_pct |-> None]
    ELSE LET d == Val(distance)
             similarity_pct == RoundedSimilarity(d)
             text == " (" \o PercentText(similarity_pct) \o "%)"
         IN  IF d <= 20
             THEN [css_class |-> "excellent", label |-> "Excellent" \o text,
                   similarity_pct |-> Some(similarity_pct)]
             ELSE IF d <= 35
             THEN [css_class |-> "good", label |-> "Good" \o text,
                   similarity_pct |-> Some(similarity_pct)]
             ELSE IF d <= 50
             THEN [css_class |-> "fair", label |-> "Fair" \o text,
                   similarity_pct |-> Some(similarity_pct)]
             ELSE [css_class |-> "weak", label |-> "Weak" \o text,
                   similarity_pct |-> Some(similarity_pct)]

get_relevance_class(distance) ==
    IF distance = None
    THEN [css_class |-> "medium", label |-> "Medium", similarity_pct |-> None]
    ELSE LET d == Val(distance)
             similarity_pct == RoundedSimilarity(d)
             text == " (" \o PercentText(similarity_pct) \o "%)"
         IN  IF d < 20
             THEN [css_class |-> "excellent", label |-> "Excellent" \o text,
                   similarity_pct |-> Some(similarity_pct)]
             ELSE IF d < 35
             THEN [css_class |-> "good", label |-> "Good" \o text,
                   similarity_pct |-> Some(similarity_pct)]
             ELSE IF d < 50
             THEN [css_class |-> "fair", label |-> "Fair" \o text,
                   similarity_pct |-> Some(similarity_pct)]
             ELSE [css_class |-> "weak", label |-> "Weak" \o text,
                   similarity_pct |-> Some(similarity_pct)]

----------------------------------------------------------------------------
(* What the environment may answer *)

DistanceValues == {12, 30, 35, 55}

ScoreValues == {0, 1}

SeqsUpTo(S, n) == UNION {[1..k -> S] : k \in 0..n}

\* the index returns its documents nearest first
Ascending(r) ==
    \A i, j \in DOMAIN r : i < j => Val(r[i]) <= Val(r[j])

\* line 529: the index result carries a distance for every document, or
\* carries no distances at all
IndexResults ==
    {r \in SeqsUpTo({Some(d) : d \in DistanceValues}, Min(MaxDocs, RETRIEVE_K)) :
        Ascending(r)}
    \cup SeqsUpTo({None}, Min(MaxDocs, RETRIEVE_K))

RerankOutcomes ==
    {[kind |-> "unavailable", scores |-> <<>>],
     [kind |-> "raises", scores |-> <<>>]}
    \cup {[kind |-> "scores", scores |-> s] : s \in SeqsUpTo(ScoreValues, MaxDocs)}

\* the cross-encoder as the follow-up sessions meet it: absent, or scoring
\* every later document above the ones before it
SessionRerankOutcomes ==
    {rr \in RerankOutcomes :
        \/ rr.kind = "unavailable"
        \/ rr.kind = "scores" /\ Len(rr.scores) = MaxDocs
                              /\ \A i \in DOMAIN rr.scores : rr.scores[i] = Min(i - 1, 1)}

\* one call of search_knowledge_base, as its caller sees it: it raises (the
\* index query failed) or returns matches; top is the distance of the first
\* document the index returned
IndexFailure == [ok |-> FALSE, top |-> None, matches |-> <<>>]

SearchRuns ==
    {[ok |-> TRUE,
      top |-> IF r = <<>> THEN None ELSE Some(r[1]),
      matches |-> search_knowledge_base(r, rr)] :
        <<r, rr>> \in IndexResults \X SessionRerankOutcomes}
    \cup {IndexFailure}

\* the same calls, without the index's own first distance
SearchOutcomes == {[ok |-> run.ok, matches |-> run.matches] : run \in SearchRuns}

----------------------------------------------------------------------------
(* Follow-up helpers: src/app.py 682-742 *)

\* the threshold compared with >= in place of >
TriggerAtThreshold(matches) ==
    IF matches = <<>> THEN FALSE
    ELSE LET top_distance == matches[1].distance
         IN  IF top_distance = None THEN FALSE
             ELSE Val(top_distance) >= FOLLOWUP_THRESHOLD

should_trigger_followup(matches) ==
    IF matches = <<>> THEN FALSE
    ELSE LET top_distance == matches[1].distance
         IN  IF top_distance = None THEN FALSE
             ELSE Val(top_distance) > FOLLOWUP_THRESHOLD

\* " ".join(enrichments)
JoinWithSpaces(terms) ==
    LET F[i \in 1..Len(terms)] ==
            IF i = 1 THEN terms[1] ELSE F[i - 1] \o " " \o terms[i]
    IN  F[Len(terms)]

\* the terms without the repetitions of an earlier term
RECURSIVE Deduplicated(_)
Deduplicated(terms) ==
    IF terms = <<>> THEN <<>>
    ELSE LET front == Deduplicated(SubSeq(terms, 1, Len(terms) - 1))
             last == terms[Len(terms)]
         IN  IF \E i \in DOMAIN front : front[i] = last THEN front
             ELSE Append(front, last)

\* an enriched query that names each term once
BuildDeduplicated(original, enrichments) ==
    IF enrichments = <<>> THEN original
    ELSE original \o " " \o JoinWithSpaces(Deduplicated(enrichments))

build_enriched_query(original, enrichments) ==
    IF enrichments = <<>> THEN original
    ELSE original \o " " \o JoinWithSpaces(enrichments)

get_followup_data(category) ==
    IF category \notin DOMAIN FOLLOWUP_QUESTIONS THEN FOLLOWUP_QUESTIONS["default"]
    ELSE FOLLOWUP_QUESTIONS[category]

\* followup_data["query_enrichment"].get(selected, "")
EnrichmentOf(category, selected) ==
    LET query_enrichment == get_followup_data(category).query_enrichment
    IN  IF selected \in DOMAIN query_enrichment THEN query_enrichment[selected]
        ELSE ""

\* the values reset_followup_state() gives the six follow-up fields, which
\* are also the values of the session state initialisation
InitialFollowupState ==
    [followup_active  |-> FALSE,
     original_query   |-> "",
     followup_count   |-> 0,
     enriched_context |-> <<>>,
     pending_followup |-> None,
     cached_matches   |-> <<>>]

\* a reset that leaves the enrichment terms in the session
ResetKeepsContext ==
    /\ followup_active'  = InitialFollowupState.followup_active
    /\ original_query'   = InitialFollowupState.original_query
    /\ followup_count'   = InitialFollowupState.followup_count
    /\ enriched_context' = enriched_context
    /\ pending_followup' = InitialFollowupState.pending_followup
    /\ cached_matches'   = InitialFollowupState.cached_matches

reset_followup_state ==
    /\ followup_active'  = InitialFollowupState.followup_active
    /\ original_query'   = InitialFollowupState.original_query
    /\ followup_count'   = InitialFollowupState.followup_count
    /\ enriched_context' = InitialFollowupState.enriched_context
    /\ pending_followup' = InitialFollowupState.pending_followup
    /\ cached_matches'   = InitialFollowupState.cached_matches

\* no option of the default question treated as a redirect
NeverRedirect(category, enrichment) == FALSE

\* line 892: a selection on the default question that names another category
IsCategoryRedirect(category, enrichment) ==
    /\ category = "default"
    /\ enrichment \in DOMAIN FOLLOWUP_QUESTIONS
    /\ enrichment # "default"

\* the next question chosen from the original query alone
NewCategoryOfOriginal(original, enriched_query) == detect_category(original)

\* line 923: the category of the next question
NewCategory(original, enriched_query) == detect_category(enriched_query)

\* the turn budget left out of the termination test
FollowupEndsOnConfidenceOnly(new_matches, count) ==
    ~should_trigger_followup(new_matches)

\* the turn budget compared with > in place of >=
FollowupEndsPastBudget(new_matches, count) ==
    ~should_trigger_followup(new_matches) \/ count > MAX_FOLLOWUPS

\* line 911: the re-search ends the follow-up session
FollowupEnds(new_matches, count) ==
    ~should_trigger_followup(new_matches) \/ count >= MAX_FOLLOWUPS

\* the distance of the top match left out of the trigger test
FollowupStartsOnAnyMatch(matches, count) ==
    matches # <<>> /\ count < MAX_FOLLOWUPS

\* line 971: the initial search starts a follow-up session
FollowupStarts(matches, count) ==
    should_trigger_followup(matches) /\ count < MAX_FOLLOWUPS

----------------------------------------------------------------------------
(* What a script run leaves behind for the observer.                        *)
(*   handler   the event the run handled                                    *)
(*   selected  the option selected ("" when none)                           *)
(*   searched  Some(query) when search_knowledge_base was called with query *)
(*   top       for a new query: Some(distance of the first document the     *)
(*             index returned)                                              *)
(*   found     Some(matches) when search_knowledge_base returned matches    *)
(*   generated Some([query, matches]) when generate_response was called     *)
(*   raised    an exception escaped main()                                  *)
(*   shown     what the run displayed last                                  *)
(*   question  the follow-up question on screen after the run ("" if none)  *)
(*   password  Some(password) when the Login button was pressed with it     *)

NoOut ==
    [handler |-> "start", selected |-> "", searched |-> None, top |-> None,
     found |-> None, generated |-> None, raised |-> FALSE,
     shown |-> "login", question |-> "", password |-> None]

\* selections: non-skip selections handled since the last new query;
\* failed: those whose retrieval call raised; redirects: category redirects;
\* rounds: re-searches that returned; low: those that returned low-confidence
\* matches; found: the matches of the most recent search that returned;
\* query: the new query the follow-up session began with; phrases: the
\* enrichment phrases of the selections since then, oldest first
NoHist ==
    [selections |-> 0, failed |-> 0, redirects |-> 0, rounds |-> 0, low |-> 0,
     found |-> <<>>, query |-> "", phrases |-> <<>>]

\* no function is being called on its own: the script runs of main() are
\* under way
NoCall == [fn |-> "main", done |-> FALSE]

\* A second browser session.  Streamlit gives every browser session its own
\* st.session_state, and lines 369-387 put the six follow-up fields, the
\* authentication flag and the chat history there.  The record holds them
\* for the session that is not running a script, with its history.
FreshSession ==
    [authenticated |-> FALSE,
     messages |-> 0,
     session |-> <<InitialFollowupState.followup_active,
                   InitialFollowupState.original_query,
                   InitialFollowupState.followup_count,
                   InitialFollowupState.enriched_context,
                   InitialFollowupState.pending_followup,
                   InitialFollowupState.cached_matches>>,
     hist |-> NoHist]

\* the follow-up fields kept in one store that every session writes
SharedFollowupStore == other' = [other EXCEPT !.session = session']

\* every read and write of a script run goes to the st.session_state of the
\* session that runs it: the other session's store is not touched
OwnSessionState == UNCHANGED other

QuestionOf(pending) ==
    IF pending = None THEN "" ELSE get_followup_data(Val(pending)).question

Prompts == {"help", "printer not printing"}

\* line 979: detect_category(prompt), for each prompt of the model
InitialCategory == [prompt \in Prompts |-> detect_category(prompt)]

Passwords == {APP_PASSWORD, "letmein"}

\* the options the model's user selects among
Choices(category) ==
    LET options == get_followup_data(category).options
    IN  {options[i] : i \in {j \in DOMAIN options : j <= MaxOption \/ j = Len(options)}}

Init ==
    /\ authenticated = FALSE
    /\ messages = 0
    /\ followup_active = InitialFollowupState.followup_active
    /\ original_query = InitialFollowupState.original_query
    /\ followup_count = InitialFollowupState.followup_count
    /\ enriched_context = InitialFollowupState.enriched_context
    /\ pending_followup = InitialFollowupState.pending_followup
    /\ cached_matches = InitialFollowupState.cached_matches
    /\ out = NoOut
    /\ hist = NoHist
    /\ call = NoCall
    /\ other = FreshSession

----------------------------------------------------------------------------
(* The script runs of main(): src/app.py 749-1030 *)

\* a login that accepts whatever is typed
LoginAnyPassword(password) ==
    /\ ~authenticated
    /\ authenticated' = TRUE
    /\ out' = [NoOut EXCEPT !.handler = "login", !.shown = "main",
                            !.password = Some(password)]
    /\ UNCHANGED <<messages, session, hist, call>>
    /\ OwnSessionState

\* check_password: the Login button
Login(password) ==
    /\ ~authenticated
    /\ authenticated' = (password = APP_PASSWORD)
    /\ out' = [NoOut EXCEPT !.handler = "login",
                            !.shown = IF password = APP_PASSWORD THEN "main" ELSE "error",
                            !.password = Some(password)]
    /\ UNCHANGED <<messages, session, hist, call>>
    /\ OwnSessionState

\* st.session_state.messages.append(...), n times
Appended(history, n) == Min(history + n, MaxMessages)

\* display_results: generate_response(query, matches) is called and its
\* answer joins the history (the generator is a collaborator that answers)
display_results(matches, query, history, o) ==
    /\ messages' = Appended(history, 1)
    /\ out' = [o EXCEPT !.generated = Some([query |-> query, matches |-> matches]),
                        !.shown = "results"]

\* lines 955-994: a prompt is submitted and no follow-up is pending
SubmitQuery(prompt) ==
    /\ authenticated
    /\ pending_followup = None
    /\ LET history == Appended(messages, 1)
           category == InitialCategory[prompt]
       IN  \E run \in SearchRuns :
           LET o == [NoOut EXCEPT !.handler = "query", !.searched = Some(prompt),
                                  !.top = run.top, !.shown = "none"]
               matches == run.matches
               found == [o EXCEPT !.found = Some(matches)]
           IN  /\ hist' = [NoHist EXCEPT !.found = matches, !.query = prompt]
               /\ IF ~run.ok
                  THEN /\ messages' = history
                       /\ out' = [o EXCEPT !.raised = TRUE, !.shown = "error"]
                       /\ UNCHANGED session
                  ELSE IF matches = <<>>
                  THEN /\ messages' = Appended(history, 1)
                       /\ out' = [found EXCEPT !.shown = "noresults"]
                       /\ UNCHANGED session
                  ELSE IF FollowupStarts(matches, followup_count)
                  THEN /\ followup_active' = TRUE
                       /\ original_query' = prompt
                       /\ cached_matches' = matches
                       /\ followup_count' = 1
                       /\ pending_followup' = Some(category)
                       /\ UNCHANGED enriched_context
                       /\ messages' = history
                       /\ out' = [found EXCEPT !.shown = "question",
                                               !.question = QuestionOf(Some(category))]
                  ELSE /\ display_results(matches, prompt, history, found)
                       /\ UNCHANGED session
    /\ UNCHANGED <<authenticated, call>>
    /\ OwnSessionState

\* a prompt that starts a new round over the pending question
SubmitQueryOverPending(prompt) ==
    /\ authenticated
    /\ pending_followup # None
    /\ original_query' = prompt
    /\ followup_count' = 1
    /\ enriched_context' = <<>>
    /\ UNCHANGED <<followup_active, pending_followup, cached_matches>>
    /\ out' = [NoOut EXCEPT !.handler = "query", !.searched = Some(prompt),
                            !.shown = "question",
                            !.question = QuestionOf(pending_followup)]
    /\ UNCHANGED <<authenticated, messages, hist, call>>
    /\ OwnSessionState

\* lines 869-875: a prompt is submitted while a follow-up is pending; the
\* run shows the pending question and does not reach the prompt
SubmitQueryWhilePending(prompt) ==
    /\ authenticated
    /\ pending_followup # None
    /\ out' = [NoOut EXCEPT !.handler = "query", !.shown = "question",
                            !.question = QuestionOf(pending_followup)]
    /\ UNCHANGED <<authenticated, messages, session, hist, call>>
    /\ OwnSessionState

\* lines 876-931: "Search with this selection"
SelectOption(selected) ==
    /\ authenticated
    /\ pending_followup # None
    /\ selected \in Choices(Val(pending_followup))
    /\ LET category == Val(pending_followup)
           matches == cached_matches
           enrichment == EnrichmentOf(category, selected)
           history == Appended(messages, 2)
           o == [NoOut EXCEPT !.handler = "select", !.selected = selected,
                              !.shown = "none"]
           h == [hist EXCEPT !.selections = @ + 1]
       IN  IF IsCategoryRedirect(category, enrichment)
           THEN /\ pending_followup' = Some(enrichment)
                /\ followup_count' = followup_count + 1
                /\ UNCHANGED <<followup_active, original_query,
                               enriched_context, cached_matches>>
                /\ messages' = history
                /\ hist' = [h EXCEPT !.redirects = @ + 1]
                /\ out' = [o EXCEPT !.shown = "question",
                                    !.question = QuestionOf(Some(enrichment))]
           ELSE IF enrichment # ""
           THEN LET context == Append(enriched_context, enrichment)
                    count == followup_count + 1
                IN  \E enriched_query \in {build_enriched_query(original_query, context)} :
                    \E new_category \in {NewCategory(original_query, enriched_query)} :
                    \E run \in SearchOutcomes :
                    LET s == [o EXCEPT !.searched = Some(enriched_query)]
                        hp == [h EXCEPT !.phrases = Append(@, enrichment)]
                        new_matches == run.matches
                        found == [s EXCEPT !.found = Some(new_matches)]
                    IN  IF ~run.ok
                        THEN /\ hist.failed < MaxFail
                             /\ enriched_context' = context
                             /\ UNCHANGED <<followup_active, original_query,
                                            followup_count, pending_followup,
                                            cached_matches>>
                             /\ messages' = history
                             /\ hist' = [hp EXCEPT !.failed = @ + 1]
                             /\ out' = [s EXCEPT !.raised = TRUE, !.shown = "error",
                                                 !.question = QuestionOf(pending_followup)]
                        ELSE /\ hist' = [hp EXCEPT
                                   !.rounds = @ + 1,
                                   !.low = IF should_trigger_followup(new_matches)
                                           THEN @ + 1 ELSE @,
                                   !.found = new_matches]
                             /\ IF FollowupEnds(new_matches, count)
                                THEN /\ reset_followup_state
                                     /\ IF new_matches # <<>>
                                        THEN display_results(new_matches, enriched_query,
                                                             history, found)
                                        ELSE /\ messages' = Appended(history, 1)
                                             /\ out' = [found EXCEPT !.shown = "noresults"]
                                ELSE /\ enriched_context' = context
                                     /\ followup_count' = count
                                     /\ cached_matches' = new_matches
                                     /\ pending_followup' = Some(new_category)
                                     /\ UNCHANGED <<followup_active, original_query>>
                                     /\ messages' = history
                                     /\ out' = [found EXCEPT
                                                  !.shown = "question",
                                                  !.question = QuestionOf(Some(new_category))]
           ELSE \* lines 926-931: the query handed to display_results is read
                \* from the session after reset_followup_state() has run
                /\ reset_followup_state
                /\ hist' = h
                /\ IF matches # <<>>
                   THEN display_results(matches, original_query', history, o)
                   ELSE /\ messages' = history
                        /\ out' = o
    /\ UNCHANGED <<authenticated, call>>
    /\ OwnSessionState

\* Skip reading the query from the session after the reset
SkipAfterReset ==
    /\ authenticated
    /\ pending_followup # None
    /\ LET matches == cached_matches
           history == Appended(messages, 2)
           o == [NoOut EXCEPT !.handler = "skip", !.shown = "none"]
       IN  /\ reset_followup_state
           /\ IF matches # <<>>
              THEN display_results(matches, original_query', history, o)
              ELSE /\ messages' = Appended(history, 1)
                   /\ out' = [o EXCEPT !.shown = "noresults"]
    /\ UNCHANGED <<authenticated, hist, call>>
    /\ OwnSessionState

\* lines 933-953: "Skip"
Skip ==
    /\ authenticated
    /\ pending_followup # None
    /\ LET matches == cached_matches
           history == Appended(messages, 2)
           query == original_query
           o == [NoOut EXCEPT !.handler = "skip", !.shown = "none"]
       IN  /\ reset_followup_state
           /\ IF matches # <<>>
              THEN display_results(matches, query, history, o)
              ELSE /\ messages' = Appended(history, 1)
                   /\ out' = [o EXCEPT !.shown = "noresults"]
    /\ UNCHANGED <<authenticated, hist, call>>
    /\ OwnSessionState

\* lines 1006-1010: "Clear Chat"
ClearChat ==
    /\ authenticated
    /\ messages' = 0
    /\ reset_followup_state
    /\ out' = [NoOut EXCEPT !.handler = "clear", !.shown = "none"]
    /\ hist' = NoHist
    /\ UNCHANGED <<authenticated, call>>
    /\ OwnSessionState

\* lines 1024-1030: "Logout"
Logout ==
    /\ authenticated
    /\ authenticated' = FALSE
    /\ messages' = 0
    /\ reset_followup_state
    /\ out' = [NoOut EXCEPT !.handler = "logout"]
    /\ hist' = NoHist
    /\ UNCHANGED call
    /\ OwnSessionState

AllChoices == UNION {Choices(c) : c \in DOMAIN FOLLOWUP_QUESTIONS}

Next ==
    \/ \E password \in Passwords : Login(password)
    \/ \E prompt \in Prompts : SubmitQuery(prompt)
    \/ \E prompt \in Prompts : SubmitQueryWhilePending(prompt)
    \/ \E selected \in AllChoices : SelectOption(selected)
    \/ Skip
    \/ ClearChat
    \/ Logout

Spec == Init /\ [][Next]_vars

----------------------------------------------------------------------------
(* The functions of src/app.py called on their own: the inputs are drawn by  *)
(* FunctionInit and each action applies one function to them.               *)

\* most documents the index returns to one call
MaxResults == 4

\* most enrichment terms handed to build_enriched_query
MaxTerms == 3

\* distances on both sides of 0.30, 0.40 and 0.50, and the exact match
PipelineDistances == {0, 30, 40, 48, 50, 52}

\* collection.query raises, or returns documents nearest first, with a
\* distance each or with no distances at all
IndexReplies ==
    {[ok |-> TRUE, distances |-> r] :
        r \in {q \in SeqsUpTo({Some(d) : d \in PipelineDistances},
                               Min(MaxResults, RETRIEVE_K)) : Ascending(q)}
               \cup SeqsUpTo({None}, Min(MaxResults, RETRIEVE_K))}
    \cup {[ok |-> FALSE, distances |-> <<>>]}

Rerankers ==
    {[kind |-> "disabled", scores |-> <<>>],
     [kind |-> "unavailable", scores |-> <<>>],
     [kind |-> "raises", scores |-> <<>>]}
    \cup {[kind |-> "scores", scores |-> sc] : sc \in SeqsUpTo(ScoreValues, MaxResults)}

\* every distance from 0.00 to 1.00, and the absent distance
ClassifiedDistances == {None} \cup {Some(d) : d \in 0..100}

DetectedQueries ==
    {"", "help", "printer not printing", "PRINTER Jam", "ticket",
     "card order", "Cash Drawer short", "void order ticket",
     "kitchen print ticket", "customer is shipping it", "computer froze",
     "menu item price", "Refund to credit card", "close the till",
     "tip on card for server", "something is wrong"}

EnrichedOriginals == {"", "help", "printer not printing"}

EnrichmentTerms == {"order", "printer receipt", "payment credit card"}

\* the values config.DISTANCE_THRESHOLD is given to the two filters
ConfiguredThresholds == {0, 10, 20, 30, 40, 50, 60, 70, 80, 90, 100}

\* the distance of the one document the filters are applied to
FilteredDistances ==
    {None} \cup {Some(d) : d \in {0, 35, 40, 48, 50, 52, 60, 65, 70, 100}}

FunctionCalls ==
    {[fn |-> "search_knowledge_base", done |-> FALSE, index |-> ix, rr |-> rr] :
        <<ix, rr>> \in IndexReplies \X Rerankers}
    \cup {[fn |-> "get_relevance_class", done |-> FALSE, distance |-> d] :
             d \in ClassifiedDistances}
    \cup {[fn |-> "detect_category", done |-> FALSE, query |-> q] :
             q \in DetectedQueries}
    \cup {[fn |-> "build_enriched_query", done |-> FALSE, original |-> o,
            enrichments |-> t] :
             <<o, t>> \in EnrichedOriginals \X SeqsUpTo(EnrichmentTerms, MaxTerms)}
    \cup {[fn |-> "filters", done |-> FALSE, distance_threshold |-> t,
            distance |-> d] :
             <<t, d>> \in ConfiguredThresholds \X FilteredDistances}

FunctionInit ==
    /\ authenticated = FALSE
    /\ messages = 0
    /\ followup_active = InitialFollowupState.followup_active
    /\ original_query = InitialFollowupState.original_query
    /\ followup_count = InitialFollowupState.followup_count
    /\ enriched_context = InitialFollowupState.enriched_context
    /\ pending_followup = InitialFollowupState.pending_followup
    /\ cached_matches = InitialFollowupState.cached_matches
    /\ out = NoOut
    /\ hist = NoHist
    /\ call \in FunctionCalls
    /\ other = FreshSession

CallSearch ==
    /\ call.fn = "search_knowledge_base" /\ ~call.done
    /\ call' = [fn |-> call.fn, done |-> TRUE, index |-> call.index, rr |-> call.rr,
                result |-> SearchCall(call.index, call.rr)]
    /\ UNCHANGED <<authenticated, messages, session, out, hist, other>>

CallClassify ==
    /\ call.fn = "get_relevance_class" /\ ~call.done
    /\ call' = [fn |-> call.fn, done |-> TRUE, distance |-> call.distance,
                result |-> get_relevance_class(call.distance)]
    /\ UNCHANGED <<authenticated, messages, session, out, hist, other>>

CallDetect ==
    /\ call.fn = "detect_category" /\ ~call.done
    /\ call' = [fn |-> call.fn, done |-> TRUE, query |-> call.query,
                result |-> detect_category(call.query)]
    /\ UNCHANGED <<authenticated, messages, session, out, hist, other>>

CallEnrich ==
    /\ call.fn = "build_enriched_query" /\ ~call.done
    /\ call' = [fn |-> call.fn, done |-> TRUE, original |-> call.original,
                enrichments |-> call.enrichments,
                result |-> build_enriched_query(call.original, call.enrichments)]
    /\ UNCHANGED <<authenticated, messages, session, out, hist, other>>

\* lines 525-543 and 569-577 with distance_threshold as configured: the
\* pre-filter applied to one retrieved document, and the post-filter applied
\* to the same document had the pre-filter let it through
CallFilters ==
    /\ call.fn = "filters" /\ ~call.done
    /\ call' = [fn |-> call.fn, done |-> TRUE,
                distance_threshold |-> call.distance_threshold,
                distance |-> call.distance,
                result |->
                  [pre_rerank_threshold |->
                       pre_rerank_threshold(call.distance_threshold),
                   candidates |->
                       PreFilter(<<call.distance>>, call.distance_threshold),
                   final_matches |->
                       PostFilter(<<Candidate(1, call.distance)>>, RETURN_K,
                                  call.distance_threshold),
                   returned |->
                       Search(<<call.distance>>,
                              [kind |-> "unavailable", scores |-> <<>>],
                              RETURN_K, call.distance_threshold)]]
    /\ UNCHANGED <<authenticated, messages, session, out, hist, other>>

FunctionNext ==
    \/ CallFilters
    \/ CallSearch
    \/ CallClassify
    \/ CallDetect
    \/ CallEnrich

FunctionSpec == FunctionInit /\ [][FunctionNext]_vars

----------------------------------------------------------------------------
(* Two browser sessions.  The variables of main() describe the session that *)
(* runs its script; other holds the session that waits.  Streamlit runs the *)
(* scripts of the two sessions in any order: SwitchSession hands the turn   *)
(* to the waiting session.  The turn changes hands at these points of a     *)
(* session: before login, and while its first follow-up question or the     *)
(* question after its first enrichment round is pending with one cached     *)
(* match, no retrieval call having failed.                                  *)

AtParkingPoint ==
    \/ ~authenticated /\ messages = 0
    \/ /\ pending_followup # None
       /\ hist.query = "help"
       /\ hist.failed = 0
       /\ hist.redirects = 0
       /\ hist.selections <= 1
       /\ Len(cached_matches) = 1

SwitchSession ==
    /\ call = NoCall
    /\ AtParkingPoint
    /\ other' = [authenticated |-> authenticated, messages |-> messages,
                 session |-> session, hist |-> hist]
    /\ authenticated' = other.authenticated
    /\ messages' = other.messages
    /\ followup_active' = other.session[1]
    /\ original_query' = other.session[2]
    /\ followup_count' = other.session[3]
    /\ enriched_context' = other.session[4]
    /\ pending_followup' = other.session[5]
    /\ cached_matches' = other.session[6]
    /\ hist' = other.hist
    /\ out' = [NoOut EXCEPT !.handler = "switch", !.shown = "none"]
    /\ UNCHANGED call

TwoSessionNext ==
    \/ Next
    \/ SwitchSession

TwoSessionSpec == Init /\ [][TwoSessionNext]_vars

----------------------------------------------------------------------------
(* The program as a whole: a session of main(), or one function called on   *)
(* its own.                                                                 *)

ProgramInit == Init \/ FunctionInit

ProgramNext ==
    \/ call = NoCall /\ Next
    \/ FunctionNext

ProgramSpec == ProgramInit /\ [][ProgramNext]_vars

----------------------------------------------------------------------------
(* Properties of the follow-up state machine *)

\* the session is Asking: a follow-up question is pending (line 869)
Asking == pending_followup # None

\* a selection whose retrieval call returned was handled by the last run
Answered == out.handler = "select" /\ out.found # None

\* the query the re-search of a selection is made with, read before the step
EnrichedQueryOf(selected) ==
    build_enriched_query(original_query,
        Append(enriched_context, EnrichmentOf(Val(pending_followup), selected)))

C2_EmptyEnrichmentShowsCached ==
    [][(/\ Asking
        /\ out'.handler = "select"
        /\ out'.selected \in Choices(Val(pending_followup))
        /\ EnrichmentOf(Val(pending_followup), out'.selected) = "")
       => (/\ session' = <<FALSE, "", 0, <<>>, None, <<>>>>
           /\ out'.searched = None
           /\ out'.generated =
                Some([query |-> original_query, matches |-> cached_matches]))]_vars

\* C3: Skip ends the session at once without a new search and hands the
\* generator the matches of the most recent search under the original query,
\* however low their confidence.
C3_SkipShowsCached ==
    [][(out'.handler = "skip")
       => (/\ Asking
           /\ session' = <<FALSE, "", 0, <<>>, None, <<>>>>
           /\ out'.searched = None
           /\ out'.found = None
           /\ cached_matches = hist.found
           /\ out'.generated =
                Some([query |-> original_query, matches |-> hist.found]))]_vars

\* Skip was pressed after an enrichment round that left the session Asking
C3_Witness ==
    /\ out.handler = "skip"
    /\ hist.rounds > 0
    /\ out.generated # None
    /\ Val(Val(out.generated).matches[1].distance) > 30

\* C4: after the re-search of a selection with a non-empty, non-redirect
\* enrichment the session ends exactly when the new top match is absent, has
\* no distance or has a distance of at most 0.30, or the turn count has
\* reached MAX_FOLLOWUPS (4); it then shows the new matches under the
\* enriched query, or "no results" when there are none.
C4_EnrichmentEnds ==
    [][(Asking /\ out'.handler = "select" /\ out'.found # None)
       => LET new_matches == Val(out'.found)
              low == /\ new_matches # <<>>
                     /\ new_matches[1].distance # None
                     /\ Val(new_matches[1].distance) > 30
          IN  /\ (pending_followup' = None) <=> (~low \/ followup_count + 1 >= 4)
              /\ (pending_followup' = None) =>
                   /\ session' = <<FALSE, "", 0, <<>>, None, <<>>>>
                   /\ out'.searched = Some(EnrichedQueryOf(out'.selected))
                   /\ IF new_matches # <<>>
                      THEN out'.generated =
                             Some([query |-> EnrichedQueryOf(out'.selected),
                                   matches |-> new_matches])
                      ELSE out'.generated = None /\ out'.shown = "noresults"]_vars

\* the first re-search returned a top match at exactly 0.30 and the session
\* ended with those matches
C4_Witness ==
    /\ ~Asking
    /\ Answered
    /\ hist.rounds = 1
    /\ Val(out.found) # <<>>
    /\ Val(out.found)[1].distance = Some(30)
    /\ out.generated # None
    /\ Val(out.generated).matches = Val(out.found)

\* C5: an enrichment round that leaves the session Asking makes the category
\* of the enriched query the pending category and the new matches the cached
\* matches, and leaves the original query as it was.
C5_EnrichmentContinues ==
    [][(Asking /\ out'.handler = "select" /\ out'.found # None
               /\ pending_followup' # None)
       => (/\ pending_followup' = Some(detect_category(EnrichedQueryOf(out'.selected)))
           /\ cached_matches' = Val(out'.found)
           /\ original_query' = original_query)]_vars

\* "help" was enriched with the payment terms and the next question is the
\* payment question
C5_Witness ==
    /\ Asking
    /\ Answered
    /\ original_query = "help"
    /\ pending_followup = Some("payment")
    /\ cached_matches = Val(out.found)

\* C6: on the default question, selecting an option whose enrichment string
\* names another category makes that category pending and adds one to the
\* turn count, without a search and with the cached matches, the enrichment
\* terms and the original query unchanged; the session stays Asking.
C6_CategoryRedirect ==
    [][(/\ pending_followup = Some("default")
        /\ out'.handler = "select"
        /\ EnrichmentOf("default", out'.selected)
             \in DOMAIN FOLLOWUP_QUESTIONS \ {"default"})
       => (/\ pending_followup' = Some(EnrichmentOf("default", out'.selected))
           /\ followup_count' = followup_count + 1
           /\ out'.searched = None
           /\ UNCHANGED <<cached_matches, enriched_context, original_query>>)]_vars

\* "Orders & checkout" was selected on the default question
C6_Witness ==
    /\ out.handler = "select"
    /\ out.selected = "Orders & checkout"
    /\ pending_followup = Some("order")
    /\ followup_count = 2
    /\ hist.redirects = 1

\* C7: an initial search triggers the follow-up flow exactly when it returns
\* at least one match and the first match has a distance, strictly greater
\* than FOLLOWUP_THRESHOLD (0.30).  The session then becomes Asking with the
\* query as original query, the matches cached, the category of the query
\* pending and a turn count of 1; otherwise it stays Idle and the matches,
\* if any, are shown under the query.
C7_InitialTrigger ==
    [][(~Asking /\ out'.handler = "query" /\ out'.found # None)
       => LET matches == Val(out'.found)
              query == Val(out'.searched)
              low == /\ matches # <<>>
                     /\ matches[1].distance # None
                     /\ Val(matches[1].distance) > 30
          IN  /\ (pending_followup' # None) <=> low
              /\ low => /\ original_query' = query
                        /\ cached_matches' = matches
                        /\ pending_followup' = Some(InitialCategory[query])
                        /\ followup_count' = 1
                        /\ out'.generated = None
              /\ ~low => /\ UNCHANGED session
                         /\ matches # <<>> =>
                              out'.generated =
                                Some([query |-> query, matches |-> matches])]_vars

\* an initial search returned a top match at exactly 0.30 and its matches
\* were shown at once
C7_Witness ==
    /\ ~Asking
    /\ out.handler = "query"
    /\ out.found # None
    /\ Val(out.found) # <<>>
    /\ Val(out.found)[1].distance = Some(30)
    /\ out.generated = Some([query |-> Val(out.searched), matches |-> Val(out.found)])

\* the enrichment rounds handled so far all returned low-confidence matches
\* and no redirect was taken; the last run handled such a round
LowConfidenceRound ==
    /\ Answered
    /\ hist.redirects = 0
    /\ hist.low = hist.rounds
    /\ Val(out.found) # <<>>
    /\ Val(Val(out.found)[1].distance) > 30

HelpSearched(d) ==
    /\ out.handler = "query"
    /\ out.searched = Some("help")
    /\ out.found # None
    /\ out.top = Some(Some(d))

C10_IdleIsInitial ==
    /\ ~Asking =>
         /\ followup_active = FALSE
         /\ original_query = ""
         /\ followup_count = 0
         /\ enriched_context = <<>>
         /\ pending_followup = None
         /\ cached_matches = <<>>
    /\ followup_active <=> Asking

\* Skip ended a session whose enrichment terms included those of a selection
\* whose retrieval call had raised
C10_Witness ==
    /\ out.handler = "skip"
    /\ hist.failed > 0
    /\ hist.rounds > 0
    /\ ~Asking
    /\ enriched_context = <<>>

----------------------------------------------------------------------------
(* Properties of the functions called on their own *)

\* a call of search_knowledge_base has returned or raised
SearchDone == call.fn = "search_knowledge_base" /\ call.done

\* a call of search_knowledge_base has returned
SearchReturned == SearchDone /\ ~call.result.raised

\* C11: whatever the index returned and whatever the reranker did, the
\* matches returned are at most return_k, every match that has a distance
\* lies at or below distance_threshold, and when the candidates carry no
\* distance neither filter removes one: only the return_k limit shortens
\* the list.
C11_FilterBounds ==
    SearchReturned =>
        LET matches == call.result.matches
            results == call.index.distances
        IN  /\ Len(matches) <= RETURN_K
            /\ \A i \in DOMAIN matches :
                 matches[i].distance # None =>
                   Val(matches[i].distance) <= DISTANCE_THRESHOLD
            /\ (\A j \in DOMAIN results : results[j] = None) =>
                 /\ Len(call.result.reranked) = Len(results)
                 /\ Len(matches) = Min(RETURN_K, Len(results))

\* four documents were retrieved, the last at 0.48, the reranker ran and
\* three matches came back
C11_Witness ==
    /\ SearchReturned
    /\ Len(call.index.distances) = 4
    /\ call.index.distances[4] = Some(48)
    /\ call.result.predict_calls = 1
    /\ Len(call.result.matches) = 3

\* the documents of the index that a sequence of candidates holds
Documents(candidates) == {candidates[i].content : i \in DOMAIN candidates}

\* C12: with distance_threshold = 0.40, whenever the reranker is invoked the
\* candidates handed to it are exactly the retrieved documents whose distance
\* is absent or at most 0.50: one at 0.52 is never handed over, one at 0.48
\* is; and no returned match has a distance above 0.40, whatever scores the
\* reranker gave.
C12_RelaxedPreFilter ==
    SearchReturned =>
        LET results == call.index.distances
            pairs == call.result.pairs
            matches == call.result.matches
        IN  /\ \A i \in DOMAIN pairs :
                 pairs[i].distance # None => Val(pairs[i].distance) <= 50
            /\ call.result.predict_calls = 1 =>
                 Documents(pairs) =
                     {j \in DOMAIN results :
                         results[j] = None \/ Val(results[j]) <= 50}
            /\ \A i \in DOMAIN matches :
                 matches[i].distance # None =>
                   ~(Val(matches[i].distance) > 40 /\ Val(matches[i].distance) <= 50)

\* documents at 0.30, 0.48 and 0.52 were retrieved, the reranker scored the
\* one at 0.48 highest, and only the one at 0.30 came back
C12_Witness ==
    /\ SearchReturned
    /\ call.index.distances = <<Some(30), Some(48), Some(52)>>
    /\ call.rr.kind = "scores"
    /\ call.rr.scores = <<0, 1>>
    /\ Documents(call.result.pairs) = {1, 2}
    /\ call.result.reranked[1].content = 2
    /\ Documents(call.result.matches) = {1}

\* C13: every match returned with a distance d carries
\* similarity_pct = round((1 - d) * 100, 1), d = 0 included, and a match has
\* no similarity_pct exactly when it has no distance.
C13_SimilarityConsistent ==
    SearchReturned =>
        \A i \in DOMAIN call.result.matches :
            LET c == call.result.matches[i]
            IN  /\ c.distance # None =>
                     c.similarity_pct = Some(RoundedSimilarity(Val(c.distance)))
                /\ c.similarity_pct = None <=> c.distance = None

\* the order of the index's documents in a sequence of candidates
ContentOrder(candidates) == [i \in DOMAIN candidates |-> candidates[i].content]

\* stage 2 of the call did not rerank: reranking is disabled, no
\* cross-encoder is loaded, predict raised, or predict returned fewer scores
\* than pairs so that reading them raised
RerankerFailed ==
    \/ call.rr.kind \in {"disabled", "unavailable", "raises"}
    \/ /\ call.result.predict_calls = 1
       /\ Len(call.rr.scores) < Len(call.result.pairs)

\* C14: when reranking is disabled, the cross-encoder is not loaded, or the
\* reranking computation raises, a call whose index query succeeded returns
\* normally, and the returned matches are the index's documents in the
\* index's own order, ascending by distance: the order the two filters
\* alone would give.
C14_RerankerPassThrough ==
    (SearchDone /\ call.index.ok /\ RerankerFailed) =>
        LET matches == call.result.matches
        IN  /\ ~call.result.raised
            /\ \A i, j \in DOMAIN matches :
                 i < j =>
                   /\ matches[i].content < matches[j].content
                   /\ (matches[i].distance # None /\ matches[j].distance # None)
                        => Val(matches[i].distance) <= Val(matches[j].distance)
            /\ ContentOrder(matches) =
                 ContentOrder(PostFilter(
                     PreFilter(call.index.distances, DISTANCE_THRESHOLD),
                     RETURN_K, DISTANCE_THRESHOLD))

\* predict was called on three candidates and raised; the three came back
\* in index order
C14_Witness ==
    /\ SearchReturned
    /\ call.rr.kind = "raises"
    /\ call.result.predict_calls = 1
    /\ call.index.distances = <<Some(0), Some(30), Some(40)>>
    /\ Len(call.result.matches) = 3

\* the documents of the index's answer that pass the pre-filter
Survivors ==
    {j \in DOMAIN call.index.distances :
        \/ call.index.distances[j] = None
        \/ Val(call.index.distances[j]) <= pre_rerank_threshold(DISTANCE_THRESHOLD)}

\* the place of document d among the survivors, in retrieval order
PlaceOf(d) == Cardinality({j \in Survivors : j <= d})

\* C15: when a cross-encoder is loaded, at least two candidates pass the
\* pre-filter and predict returns a score for each pair, every candidate
\* after stage 2 carries the score of its pair and the candidates are a
\* permutation of the survivors in descending score order, equal scores in
\* retrieval order; with fewer than two survivors predict is not called and
\* no candidate carries a score.
C15_StableRerank ==
    SearchReturned =>
        LET reranked == call.result.reranked
        IN  /\ (call.rr.kind = "scores" /\ Cardinality(Survivors) >= 2
                  /\ Len(call.rr.scores) >= Cardinality(Survivors)) =>
                 /\ call.result.predict_calls = 1
                 /\ Len(reranked) = Cardinality(Survivors)
                 /\ Documents(reranked) = Survivors
                 /\ \A i \in DOMAIN reranked :
                      reranked[i].cross_encoder_score =
                          Some(call.rr.scores[PlaceOf(reranked[i].content)])
                 /\ \A i, j \in DOMAIN reranked :
                      i < j =>
                        LET si == Val(reranked[i].cross_encoder_score)
                            sj == Val(reranked[j].cross_encoder_score)
                        IN  \/ si > sj
                            \/ si = sj /\ reranked[i].content < reranked[j].content
            /\ Cardinality(Survivors) < 2 =>
                 /\ call.result.predict_calls = 0
                 /\ \A i \in DOMAIN reranked :
                      reranked[i].cross_encoder_score = None
                 /\ \A i \in DOMAIN call.result.matches :
                      call.result.matches[i].cross_encoder_score = None

\* three survivors scored 0, 1, 1: the two scored 1 come first, in their
\* retrieval order, then the one scored 0
C15_Witness ==
    /\ SearchReturned
    /\ call.index.distances = <<Some(0), Some(30), Some(40), Some(52)>>
    /\ call.rr.kind = "scores"
    /\ call.rr.scores = <<0, 1, 1>>
    /\ ContentOrder(call.result.reranked) = <<2, 3, 1>>

\* a call of detect_category has returned
DetectDone == call.fn = "detect_category" /\ call.done

\* the number of keywords of a category that occur in the lower-cased query
KeywordCount(query, category) ==
    Cardinality({k \in DOMAIN CATEGORY_KEYWORDS[category] :
                    Contains(Lower(query), CATEGORY_KEYWORDS[category][k])})

\* C16: detect_category(q) is a category of the question table; it is
\* "default" exactly when no keyword of any category occurs in the
\* lower-cased q; otherwise it is the category with the most keywords
\* occurring in the lower-cased q, and among categories with equally many
\* the one first in the order printer, payment, employee, order, menu, cash.
C16_DetectCategory ==
    DetectDone =>
        LET count == [i \in DOMAIN CategoryOrder |->
                         KeywordCount(call.query, CategoryOrder[i])]
        IN  /\ CategoryOrder =
                 <<"printer", "payment", "employee", "order", "menu", "cash">>
            /\ call.result \in DOMAIN FOLLOWUP_QUESTIONS
            /\ call.result = "default" <=> \A i \in DOMAIN count : count[i] = 0
            /\ call.result # "default" =>
                 \E i \in DOMAIN count :
                     /\ call.result = CategoryOrder[i]
                     /\ \A j \in DOMAIN count : count[j] <= count[i]
                     /\ \A j \in DOMAIN count : count[j] = count[i] => i <= j

\* "card order" has one payment keyword and one order keyword: payment, the
\* earlier of the two, was returned
C16_Witness ==
    /\ DetectDone
    /\ call.query = "card order"
    /\ KeywordCount(call.query, "payment") = 1
    /\ KeywordCount(call.query, "order") = 1
    /\ call.result = "payment"

\* a call of build_enriched_query has returned
EnrichDone == call.fn = "build_enriched_query" /\ call.done

\* every term, oldest first, each with one space before it
RECURSIVE Spaced(_)
Spaced(terms) ==
    IF terms = <<>> THEN "" ELSE " " \o Head(terms) \o Spaced(Tail(terms))

\* the last script run sent the query of an enrichment round to the retriever
EnrichmentRound == out.handler = "select" /\ out.searched # None

\* C17: build_enriched_query(original, terms) is original when terms is
\* empty and otherwise original, a space, and the terms joined by single
\* spaces in their order, repeated terms repeated; and in a session the
\* query of the n-th enrichment round is the query the session began with
\* followed by the n phrases selected so far, oldest first.
C17_EnrichedQuery ==
    /\ EnrichDone =>
         /\ call.enrichments = <<>> => call.result = call.original
         /\ call.enrichments # <<>> =>
              call.result = call.original \o Spaced(call.enrichments)
    /\ EnrichmentRound =>
         /\ Len(hist.phrases) = hist.rounds + hist.failed
         /\ Len(hist.phrases) > 0
         /\ Val(out.searched) = hist.query \o Spaced(hist.phrases)

\* the second enrichment round of a session selected the phrase of the
\* first again, and the query sent holds the phrase twice
C17_Witness ==
    /\ EnrichmentRound
    /\ Len(hist.phrases) = 2
    /\ hist.phrases[1] = hist.phrases[2]
    /\ Val(out.searched) =
         hist.query \o " " \o hist.phrases[1] \o " " \o hist.phrases[1]

\* a call of get_relevance_class has returned
ClassifyDone == call.fn = "get_relevance_class" /\ call.done

\* the label begins with this name, followed by a percentage in brackets
Labelled(label, name) ==
    /\ Len(label) > Len(name) + 1
    /\ SubSeq(label, 1, Len(name) + 2) = name \o " ("

LabelNames == {"Excellent", "Good", "Fair", "Weak"}

\* C18: for a distance d from 0.00 to 1.00 get_relevance_class gives exactly
\* one of the four labels: Excellent for d < 0.20, Good for 0.20 <= d < 0.35,
\* Fair for 0.35 <= d < 0.50, Weak for d >= 0.50, with
\* similarity_pct = round((1 - d) * 100, 1), the percentage the label shows;
\* an absent distance gives the label Medium and no percentage.
C18_RelevanceClass ==
    ClassifyDone =>
        LET r == call.result
        IN  IF call.distance = None
            THEN r.label = "Medium" /\ r.similarity_pct = None
            ELSE LET d == Val(call.distance)
                     name == CHOOSE n \in LabelNames : Labelled(r.label, n)
                 IN  /\ Cardinality({n \in LabelNames : Labelled(r.label, n)}) = 1
                     /\ d \in 0..19 => name = "Excellent"
                     /\ d \in 20..34 => name = "Good"
                     /\ d \in 35..49 => name = "Fair"
                     /\ d \in 50..100 => name = "Weak"
                     /\ r.similarity_pct = Some((100 - d) * 10)
                     /\ r.label = name \o " (" \o PercentText((100 - d) * 10) \o "%)"

\* the distance 0.35, a bound of the table, was classified Fair at 65.0%
C18_Witness ==
    /\ ClassifyDone
    /\ call.distance = Some(35)
    /\ call.result.label = "Fair (65.0%)"
    /\ call.result.similarity_pct = Some(650)

\* C19: when the index query raises, search_knowledge_base raises to its
\* caller and returns nothing, the cross-encoder is not called, and the
\* index was queried once only.
C19_IndexFailurePropagates ==
    (SearchDone /\ ~call.index.ok) =>
        /\ call.result.raised
        /\ call.result.matches = <<>>
        /\ call.result.predict_calls = 0
        /\ call.result.pairs = <<>>
        /\ call.result.index_calls = 1

\* the index query raised in a call whose cross-encoder was loaded and ready
\* to score, and the call raised
C19_Witness ==
    /\ SearchDone
    /\ ~call.index.ok
    /\ call.rr.kind = "scores"
    /\ Len(call.rr.scores) = 2
    /\ call.result.raised

\* C20: when the index returns nothing, or every document it returns fails
\* the pre-filter, search_knowledge_base returns the empty sequence without
\* raising and without calling the cross-encoder; in a session no script
\* run, whatever it handled, calls the answer generator with an empty
\* sequence of matches; and a new query whose search returned the empty
\* sequence shows the no-results message and leaves the session Idle.
C20_EmptyResultIsAnOutcome ==
    /\ (SearchDone /\ call.index.ok /\ Survivors = {}) =>
         /\ ~call.result.raised
         /\ call.result.matches = <<>>
         /\ call.result.predict_calls = 0
    /\ out.generated # None => Val(out.generated).matches # <<>>
    /\ (out.handler = "query" /\ out.found = Some(<<>>)) =>
         /\ ~Asking
         /\ ~out.raised
         /\ out.shown = "noresults"
         /\ out.generated = None
         /\ session = <<InitialFollowupState.followup_active,
                        InitialFollowupState.original_query,
                        InitialFollowupState.followup_count,
                        InitialFollowupState.enriched_context,
                        InitialFollowupState.pending_followup,
                        InitialFollowupState.cached_matches>>

\* a new query whose only document lay at 0.55: the search returned the
\* empty sequence, the no-results message was shown and the session is Idle
C20_Witness ==
    /\ out.handler = "query"
    /\ out.top = Some(Some(55))
    /\ out.found = Some(<<>>)
    /\ out.shown = "noresults"
    /\ ~Asking

----------------------------------------------------------------------------
(* Properties of two sessions *)

----------------------------------------------------------------------------
(* Properties of the session outside the follow-up rounds *)

\* C22: a script run of a session that is not authenticated handles the
\* login form only: it calls neither the retriever nor the answer generator
\* and leaves the follow-up fields and the chat history alone; pressing Login
\* with a password other than APP_PASSWORD leaves the session unauthenticated
\* and shows the error, pressing it with APP_PASSWORD authenticates; Logout
\* leaves the session unauthenticated with an empty chat history and the
\* follow-up fields at their initial values.
C22_AuthenticationGate ==
    [][/\ ~authenticated =>
            /\ out'.handler = "login"
            /\ out'.password # None
            /\ out'.searched = None /\ out'.found = None
            /\ out'.generated = None
            /\ session' = session /\ messages' = messages
            /\ authenticated' = (Val(out'.password) = APP_PASSWORD)
            /\ (out'.shown = "error") = (Val(out'.password) # APP_PASSWORD)
       /\ out'.handler = "logout" =>
            /\ authenticated /\ ~authenticated'
            /\ messages' = 0
            /\ session' = FreshSession.session]_vars

\* Login was pressed with a password that is not the configured one: the
\* error is shown and the session is still unauthenticated
C22_Witness ==
    /\ out.handler = "login"
    /\ out.password = Some("letmein")
    /\ out.shown = "error"
    /\ ~authenticated

----------------------------------------------------------------------------
(* Properties of the filters *)

\* the two filters have been applied to a document
FiltersDone == call.fn = "filters" /\ call.done

\* C23: for every configured distance_threshold from 0.00 to 1.00 the
\* pre-filter bound min(distance_threshold + 0.10, 0.60) is at least
\* distance_threshold, and a document the post-filter keeps is not removed
\* by the pre-filter.
C23_PreFilterIsRelaxed ==
    FiltersDone =>
        /\ call.result.pre_rerank_threshold >= call.distance_threshold
        /\ call.result.final_matches # <<>> => call.result.candidates # <<>>

----------------------------------------------------------------------------
(* Invariants of a pending follow-up question *)

\* C24: whenever a follow-up question is pending, cached_matches is not
\* empty and its first match has a distance, which is greater than
\* FOLLOWUP_THRESHOLD and at most DISTANCE_THRESHOLD.
C24_CachedTopIsLowConfidence ==
    Asking =>
        /\ cached_matches # <<>>
        /\ cached_matches[1].distance # None
        /\ Val(cached_matches[1].distance) > FOLLOWUP_THRESHOLD
        /\ Val(cached_matches[1].distance) <= DISTANCE_THRESHOLD

\* a question is pending after an enrichment round whose search returned
\* two matches, the first of them at 0.35
C24_Witness ==
    /\ Asking
    /\ hist.rounds > 0
    /\ Len(cached_matches) = 2
    /\ cached_matches[1].distance = Some(35)

\* C25: whenever a follow-up question is pending the turn count lies between
\* 1 and MAX_FOLLOWUPS - 1 and the enrichment list holds one phrase for every
\* turn after the first that was not a category redirect; the turn count
\* exceeds MAX_FOLLOWUPS in no reachable state.
C25_TurnCountAndContext ==
    /\ followup_count <= MAX_FOLLOWUPS
    /\ Asking =>
         /\ 1 <= followup_count
         /\ followup_count <= MAX_FOLLOWUPS - 1
         /\ Len(enriched_context) = followup_count - 1 - hist.redirects

\* the enrichment phrases of the question table that are not empty
EnrichmentPhrases ==
    UNION {{FOLLOWUP_QUESTIONS[c].query_enrichment[o] :
               o \in DOMAIN FOLLOWUP_QUESTIONS[c].query_enrichment} :
           c \in DOMAIN FOLLOWUP_QUESTIONS} \ {""}

\* the last script run handled a selection as a category redirect
Redirected ==
    out.handler = "select" /\ out.searched = None /\ out.shown = "question"

\* C26: the default category is pending only on the first question of a
\* session, with the turn count 1 and no enrichment accumulated; every
\* enrichment phrase of the table that is not empty holds a category
\* keyword, so that no enriched query is detected as default; a session
\* takes at most one category redirect, and takes it as its first selection.
C26_DefaultOnlyFirst ==
    /\ \A phrase \in EnrichmentPhrases : detect_category(phrase) # "default"
    /\ pending_followup = Some("default") =>
         followup_count = 1 /\ enriched_context = <<>>
    /\ hist.redirects <= 1
    /\ Redirected => hist.selections = 1

----------------------------------------------------------------------------
(* Properties of a selection whose retrieval call fails *)

\* C27: a selection whose retrieval call raises leaves the six follow-up
\* fields as they were before it, and the same selection made again right
\* after the failure sends the query the failed attempt sent.
C27_FailedSelectionChangesNothing ==
    [][/\ (out'.handler = "select" /\ out'.raised) => session' = session
       /\ (/\ out.handler = "select" /\ out.raised
           /\ out'.handler = "select" /\ out'.selected = out.selected
           /\ out'.searched # None)
            => out'.searched = out.searched]_vars

----------------------------------------------------------------------------
(* Properties of the number of matches returned *)

\* the documents retrieved whose distance is absent or at most
\* distance_threshold
WithinThreshold ==
    {j \in DOMAIN call.index.distances :
        \/ call.index.distances[j] = None
        \/ Val(call.index.distances[j]) <= DISTANCE_THRESHOLD}

\* the candidate passes the test of the post-filter
PassesThreshold(c) ==
    c.distance = None \/ Val(c.distance) <= DISTANCE_THRESHOLD

\* C28 as stated: whatever the reranker does, search_knowledge_base returns
\* exactly min(return_k, n) matches, n being the number of retrieved
\* documents whose distance is absent or at most distance_threshold.
C28_ReturnsMinOfLimitAndKept ==
    SearchReturned =>
        Len(call.result.matches) = Min(RETURN_K, Cardinality(WithinThreshold))

\* C28 as amended: search_knowledge_base returns the candidates among the
\* first return_k after stage 2 that pass the threshold test: at most
\* min(return_k, n) matches, and exactly that many when stage 2 did not
\* reorder the candidates (reranking disabled, unavailable, failed, or fewer
\* than two candidates); a reranker that puts a candidate above the threshold
\* among the first return_k reduces the number returned.
C28_ReturnsAtMostMinOfLimitAndKept ==
    SearchReturned =>
        LET matches == call.result.matches
            reranked == call.result.reranked
            first == 1..Min(RETURN_K, Len(reranked))
        IN  /\ Len(matches) = Cardinality({i \in first : PassesThreshold(reranked[i])})
            /\ Len(matches) <= Min(RETURN_K, Cardinality(WithinThreshold))
            /\ (RerankerFailed \/ call.result.predict_calls = 0) =>
                 Len(matches) = Min(RETURN_K, Cardinality(WithinThreshold))

\* documents at 0.00, 0.30, 0.40 and 0.48 were retrieved and the reranker
\* scored the one at 0.48 highest: two matches came back, not three
C28_Witness ==
    /\ SearchReturned
    /\ call.index.distances = <<Some(0), Some(30), Some(40), Some(48)>>
    /\ call.rr.kind = "scores"
    /\ call.rr.scores = <<0, 0, 0, 1>>
    /\ call.result.reranked[1].content = 4
    /\ Len(call.result.matches) = 2

----------------------------------------------------------------------------
(* Properties of a reranking step that fails *)

\* C29: when the reranking step fails (predict raises, or returns fewer
\* scores than there are candidates) the candidates pass through unmodified:
\* no candidate after stage 2, and so no match returned, carries a rerank
\* score.
C29_AnnotationIsAllOrNothing ==
    (SearchReturned /\ call.result.predict_calls = 1 /\ RerankerFailed) =>
        /\ \A i \in DOMAIN call.result.reranked :
             call.result.reranked[i].cross_encoder_score = None
        /\ \A i \in DOMAIN call.result.matches :
             call.result.matches[i].cross_encoder_score = None
        /\ call.result.reranked = call.result.pairs

----------------------------------------------------------------------------
(* Properties of a prompt submitted while a question is pending *)

\* C30: while a follow-up question is pending, a script run that receives a
\* new prompt calls neither the retriever nor the answer generator and
\* leaves the six follow-up fields and the chat history as they were; the
\* follow-up fields change only in a run that handles a selection, Skip,
\* Clear Chat or Logout.
C30_PromptIgnoredWhilePending ==
    [][Asking =>
         /\ out'.handler = "query" =>
              /\ out'.searched = None /\ out'.found = None
              /\ out'.generated = None
              /\ session' = session
              /\ messages' = messages
              /\ out'.shown = "question"
         /\ session' # session =>
              out'.handler \in {"select", "skip", "clear", "logout"}]_vars

\* a prompt was submitted while the question after an enrichment round was
\* pending: the question is still pending with the enrichment accumulated
C30_Witness ==
    /\ out.handler = "query"
    /\ out.searched = None
    /\ out.shown = "question"
    /\ Asking
    /\ enriched_context # <<>>
    /\ followup_count = 2

====
